---- MODULE Spec2Model ----
(***************************************************************************)
(* Model of exercises/08_finale: the pattern compiler Matcher::new, the    *)
(* greedy matcher Matcher::match_string and the exhaustive matcher         *)
(* Matcher::match_string_exhaustive with its explicit stack of frames.     *)
(*                                                                         *)
(* A str is a sequence of bytes; a byte is written as a one-character      *)
(* string for ASCII and as its hexadecimal value for the bytes of a        *)
(* multi-byte character.  Option<T> is a sequence of length at most one:   *)
(* <<>> is None and <<x>> is Some(x).  Indices into a str are 0-based as   *)
(* in the source.  A reference to a token of self.tokens is the 1-based    *)
(* position of that token in self.tokens; a slice &tokens[k..] is the      *)
(* number k of tokens it leaves out (its end is always the end of tokens). *)
(***************************************************************************)
EXTENDS Integers, Sequences, FiniteSets, TLC

VARIABLES pc, text, matcher, mode, string, stack, result, max_len_seen, probe, memo,
          ledger

vars == <<pc, text, matcher, mode, string, stack, result, max_len_seen, probe, memo,
          ledger>>

----------------------------------------------------------------------------
(* Bounds of the model. *)

\* longest pattern text of the compiler specification
MaxTextLen == 6
\* most segments a pattern text of the matching specification is made of
MaxSegs == 2
\* longest candidate string (in characters) of the matching specification
MaxStrLen == 3
\* longest candidate string of the specification of repeated calls
MaxRepeatStrLen == 2
\* longest candidate string (in characters) with multi-byte characters
MaxUtf8Len == 2

----------------------------------------------------------------------------
(* str *)

None == <<>>

Some(x) == <<x>>

\* &s[..n]
SliceTo(s, n) == SubSeq(s, 1, n)

\* &s[n..]
SliceFrom(s, n) == SubSeq(s, n + 1, Len(s))

\* s.as_bytes()[i]
ByteAt(s, i) == s[i + 1]

\* s.starts_with(p)
starts_with(s, p) == Len(p) <= Len(s) /\ SliceTo(s, Len(p)) = p

\* s.find([c1, c2]): the index of the first byte of s that is in chars
find(s, chars) ==
    LET hits == {i \in 0..(Len(s) - 1) : ByteAt(s, i) \in chars}
    IN  IF hits = {} THEN None
        ELSE Some(CHOOSE i \in hits : \A j \in hits : i <= j)

\* char::len_utf8 of the character whose first byte is b
len_utf8(b) ==
    CASE b \in {"F0"} -> 4
      [] b \in {"E2"} -> 3
      [] b \in {"C3"} -> 2
      [] OTHER -> 1

----------------------------------------------------------------------------
(* MatcherToken *)

RawText(t) == [kind |-> "RawText", text |-> t, options |-> <<>>]

OneOfText(o) == [kind |-> "OneOfText", text |-> <<>>, options |-> o]

WildCard == [kind |-> "WildCard", text |-> <<>>, options |-> <<>>]

----------------------------------------------------------------------------
(* Matcher::new *)

ParseFailed == [ok |-> FALSE, options |-> <<>>, tokens |-> <<>>, unparsed_text |-> <<>>]

\* parse_options without the test of found_a_pipe
RECURSIVE parse_options_no_pipe_test(_, _, _)
parse_options_no_pipe_test(unparsed_text, options, found_a_pipe) ==
    LET f == find(unparsed_text, {"|", ")"})
    IN  IF f = None THEN ParseFailed
        ELSE LET pipe_paren_index == f[1]
                 option == SliceTo(unparsed_text, pipe_paren_index)
                 rest == SliceFrom(unparsed_text, pipe_paren_index + 1)
             IN  IF option = <<>> THEN ParseFailed
                 ELSE IF ByteAt(unparsed_text, pipe_paren_index) = "|"
                 THEN parse_options_no_pipe_test(rest, Append(options, option), TRUE)
                 ELSE [ok |-> TRUE, options |-> Append(options, option),
                       tokens |-> <<>>, unparsed_text |-> rest]

\* the inner loop of Matcher::new, which reads the options of one alternation
RECURSIVE parse_options(_, _, _)
parse_options(unparsed_text, options, found_a_pipe) ==
    LET f == find(unparsed_text, {"|", ")"})
    IN  IF f = None THEN ParseFailed
        ELSE LET pipe_paren_index == f[1]
                 option == SliceTo(unparsed_text, pipe_paren_index)
                 rest == SliceFrom(unparsed_text, pipe_paren_index + 1)
             IN  IF ByteAt(unparsed_text, pipe_paren_index) = "|"
                 THEN IF option = <<>> THEN ParseFailed
                      ELSE parse_options(rest, Append(options, option), TRUE)
                 ELSE IF option = <<>> \/ ~found_a_pipe THEN ParseFailed
                      ELSE [ok |-> TRUE, options |-> Append(options, option),
                            tokens |-> <<>>, unparsed_text |-> rest]

\* the outer loop of Matcher::new
RECURSIVE parse_tokens(_, _)
parse_tokens(unparsed_text, tokens) ==
    LET f == find(unparsed_text, {".", "("})
    IN  IF f = None
        THEN [ok |-> TRUE, options |-> <<>>, tokens |-> tokens,
              unparsed_text |-> unparsed_text]
        ELSE LET dot_paren_index == f[1]
                 raw_text == SliceTo(unparsed_text, dot_paren_index)
                 tokens1 == IF raw_text # <<>> THEN Append(tokens, RawText(raw_text))
                            ELSE tokens
                 rest == SliceFrom(unparsed_text, dot_paren_index + 1)
             IN  IF ByteAt(unparsed_text, dot_paren_index) = "."
                 THEN parse_tokens(rest, Append(tokens1, WildCard))
                 ELSE LET r == parse_options(rest, <<>>, FALSE)
                      IN  IF ~r.ok THEN ParseFailed
                          ELSE parse_tokens(r.unparsed_text,
                                            Append(tokens1, OneOfText(r.options)))

\* new that pushes the trailing literal unconditionally
new_always_trailing(t) ==
    LET r == parse_tokens(t, <<>>)
    IN  IF ~r.ok THEN None
        ELSE Some([text |-> t, tokens |-> Append(r.tokens, RawText(r.unparsed_text)),
                   most_tokens_matched |-> 0])

\* Matcher::new: None, or Some(Matcher {text, tokens, most_tokens_matched: 0})
new(t) ==
    LET r == parse_tokens(t, <<>>)
    IN  IF ~r.ok THEN None
        ELSE LET tokens == IF r.unparsed_text # <<>> \/ r.tokens = <<>>
                           THEN Append(r.tokens, RawText(r.unparsed_text))
                           ELSE r.tokens
             IN  Some([text |-> t, tokens |-> tokens, most_tokens_matched |-> 0])

----------------------------------------------------------------------------
(* The single-step matchers.  Each returns whether it matched, with the    *)
(* list of steps and the cursor as the call leaves them.  A step is the    *)
(* pair (token, substring).                                                *)

Step(token, sub) == [token |-> token, str |-> sub]

\* match_raw_text that pushes the step and leaves the cursor where it was
match_raw_text_keeps_cursor(t, token, matched_tokens, s) ==
    IF starts_with(s, t)
    THEN [ok |-> TRUE,
          matched_tokens |-> Append(matched_tokens, Step(token, SliceTo(s, Len(t)))),
          string |-> s]
    ELSE [ok |-> FALSE, matched_tokens |-> matched_tokens, string |-> s]

\* Matcher::match_raw_text
match_raw_text(t, token, matched_tokens, s) ==
    IF starts_with(s, t)
    THEN [ok |-> TRUE,
          matched_tokens |-> Append(matched_tokens, Step(token, SliceTo(s, Len(t)))),
          string |-> SliceFrom(s, Len(t))]
    ELSE [ok |-> FALSE, matched_tokens |-> matched_tokens, string |-> s]

\* find_option with rfind in place of find
find_option_last(options, s) ==
    LET hits == {i \in 1..Len(options) : starts_with(s, options[i])}
    IN  IF hits = {} THEN None
        ELSE Some(options[CHOOSE i \in hits : \A j \in hits : i >= j])

\* options.iter().find(|option| s.starts_with(option))
find_option(options, s) ==
    LET hits == {i \in 1..Len(options) : starts_with(s, options[i])}
    IN  IF hits = {} THEN None
        ELSE Some(options[CHOOSE i \in hits : \A j \in hits : i <= j])

\* Matcher::match_one_of_text
match_one_of_text(options, token, matched_tokens, s) ==
    LET f == find_option(options, s)
    IN  IF f # None
        THEN [ok |-> TRUE,
              matched_tokens |-> Append(matched_tokens, Step(token, SliceTo(s, Len(f[1])))),
              string |-> SliceFrom(s, Len(f[1]))]
        ELSE [ok |-> FALSE, matched_tokens |-> matched_tokens, string |-> s]

\* Matcher::match_one_of_text_exhaustive: the triples (index, token, option)
\* of the options that s starts with, in the order of the options
match_one_of_text_exhaustive(options, token, index, s) ==
    LET hits == {i \in 1..Len(options) : starts_with(s, options[i])}
        RECURSIVE collect(_)
        collect(i) ==
            IF i > Len(options) THEN <<>>
            ELSE IF i \in hits
                 THEN <<[index |-> index, token |-> token, option |-> options[i]]>>
                      \o collect(i + 1)
                 ELSE collect(i + 1)
    IN  collect(1)

\* match_wild_card that takes one byte in place of one character
match_wild_card_one_byte(token, matched_tokens, s) ==
    IF s # <<>>
    THEN [ok |-> TRUE,
          matched_tokens |-> Append(matched_tokens, Step(token, SliceTo(s, 1))),
          string |-> SliceFrom(s, 1)]
    ELSE [ok |-> FALSE, matched_tokens |-> matched_tokens, string |-> s]

\* Matcher::match_wild_card
match_wild_card(token, matched_tokens, s) ==
    IF s # <<>>
    THEN LET next_char_index == len_utf8(s[1])
         IN  [ok |-> TRUE,
              matched_tokens |-> Append(matched_tokens,
                                        Step(token, SliceTo(s, next_char_index))),
              string |-> SliceFrom(s, next_char_index)]
    ELSE [ok |-> FALSE, matched_tokens |-> matched_tokens, string |-> s]

----------------------------------------------------------------------------
(* Matcher::match_string *)

\* the body of the for loop of match_string for the token at position i
greedy_step(tokens, i, matched_tokens, s) ==
    CASE tokens[i].kind = "RawText" ->
            match_raw_text(tokens[i].text, i, matched_tokens, s)
      [] tokens[i].kind = "OneOfText" ->
            match_one_of_text(tokens[i].options, i, matched_tokens, s)
      [] tokens[i].kind = "WildCard" ->
            match_wild_card(i, matched_tokens, s)

\* greedy_walk with `continue` in place of `break`
RECURSIVE greedy_walk_continue(_, _, _, _)
greedy_walk_continue(tokens, i, matched_tokens, s) ==
    IF i > Len(tokens) THEN matched_tokens
    ELSE LET r == greedy_step(tokens, i, matched_tokens, s)
         IN  IF ~r.ok THEN greedy_walk_continue(tokens, i + 1, matched_tokens, s)
             ELSE greedy_walk_continue(tokens, i + 1, r.matched_tokens, r.string)

\* the for loop of match_string from the token at position i on
RECURSIVE greedy_walk(_, _, _, _)
greedy_walk(tokens, i, matched_tokens, s) ==
    IF i > Len(tokens) THEN matched_tokens
    ELSE LET r == greedy_step(tokens, i, matched_tokens, s)
         IN  IF ~r.ok THEN matched_tokens
             ELSE greedy_walk(tokens, i + 1, r.matched_tokens, r.string)

\* match_string that returns nothing unless the match beats the record
match_string_only_records(tokens, s) ==
    LET matched_tokens == greedy_walk(tokens, 1, <<>>, s)
    IN  IF Len(matched_tokens) <= matcher[1].most_tokens_matched THEN <<>>
        ELSE matched_tokens

\* the list match_string returns
match_string(tokens, s) == greedy_walk(tokens, 1, <<>>, s)

\* update_most_tokens_matched without the comparison
update_most_tokens_matched_always(self, matched_tokens) ==
    [self EXCEPT !.most_tokens_matched = Len(matched_tokens)]

\* if matched_tokens.len() > self.most_tokens_matched { ... }
update_most_tokens_matched(self, matched_tokens) ==
    IF Len(matched_tokens) > self.most_tokens_matched
    THEN [self EXCEPT !.most_tokens_matched = Len(matched_tokens)]
    ELSE self

----------------------------------------------------------------------------
(* Frames of Matcher::match_string_exhaustive *)

\* Frame::Input(InputData {tokens: &all[from..], string, optional_data})
InputFrame(from, s, optional_data) ==
    [type |-> "Input", tokens |-> from, string |-> s, optional_data |-> optional_data]

\* Frame::Output(OutputData {..}); a LinkedList<Vec<step>> is a sequence of
\* sequences of steps
OutputFrame(matched_tokens, matched_tokens_count, best, best_count, is_complete_match, optional_data) ==
    [type |-> "Output",
     matched_tokens |-> matched_tokens,
     matched_tokens_count |-> matched_tokens_count,
     best_current_matched_tokens |-> best,
     best_current_matched_tokens_count |-> best_count,
     is_complete_match |-> is_complete_match,
     optional_data |-> optional_data]

\* list.into_iter().flatten().collect()
RECURSIVE flatten(_)
flatten(list) == IF list = <<>> THEN <<>> ELSE Head(list) \o flatten(Tail(list))

\* the for loop of process_input_frame over the slice &all[from..], from the
\* token at index `index` of the slice on: the steps, the cursor and the
\* options_iter it ends with
RECURSIVE input_walk(_, _, _, _, _)
input_walk(all, from, index, matched_tokens, s) ==
    IF from + index >= Len(all)
    THEN [matched_tokens |-> matched_tokens, string |-> s, options_iter |-> <<>>]
    ELSE LET token == from + index + 1
             r == IF all[token].kind = "RawText"
                  THEN match_raw_text(all[token].text, token, matched_tokens, s)
                  ELSE match_wild_card(token, matched_tokens, s)
         IN  IF all[token].kind = "OneOfText"
             THEN [matched_tokens |-> matched_tokens, string |-> s,
                   options_iter |->
                       match_one_of_text_exhaustive(all[token].options, token, index, s)]
             ELSE IF ~r.ok
                  THEN [matched_tokens |-> matched_tokens, string |-> s,
                        options_iter |-> <<>>]
                  ELSE input_walk(all, from, index + 1, r.matched_tokens, r.string)

\* is_complete_match of the Output frame that process_input_frame pushes
pushed_is_complete_match(tokens_len, matched_tokens_count) ==
    tokens_len = matched_tokens_count

\* child_frames with the stack length taken after the push of the Output frame
child_frames_index_after_push(input_data, s, options_iter, output_frame_index) ==
    [k \in 1..Len(options_iter) |->
        InputFrame(input_data.tokens + options_iter[k].index + 1,
                   SliceFrom(s, Len(options_iter[k].option)),
                   Some([chosen_option |->
                            Step(options_iter[k].token,
                                 SliceTo(s, Len(options_iter[k].option))),
                         parent_frame_index |-> output_frame_index + 1]))]

\* child_frames that pushes the options from the last declared to the first
child_frames_reversed(input_data, s, options_iter, output_frame_index) ==
    [k \in 1..Len(options_iter) |->
        LET o == options_iter[Len(options_iter) + 1 - k]
        IN  InputFrame(input_data.tokens + o.index + 1,
                       SliceFrom(s, Len(o.option)),
                       Some([chosen_option |-> Step(o.token, SliceTo(s, Len(o.option))),
                             parent_frame_index |-> output_frame_index]))]

\* child_frames whose slice starts at the alternation, not after it
child_frames_same_slice(input_data, s, options_iter, output_frame_index) ==
    [k \in 1..Len(options_iter) |->
        InputFrame(input_data.tokens + options_iter[k].index,
                   SliceFrom(s, Len(options_iter[k].option)),
                   Some([chosen_option |->
                            Step(options_iter[k].token,
                                 SliceTo(s, Len(options_iter[k].option))),
                         parent_frame_index |-> output_frame_index]))]

\* the child Input frames that process_input_frame pushes, in push order
child_frames(input_data, s, options_iter, output_frame_index) ==
    [k \in 1..Len(options_iter) |->
        InputFrame(input_data.tokens + options_iter[k].index + 1,
                   SliceFrom(s, Len(options_iter[k].option)),
                   Some([chosen_option |->
                            Step(options_iter[k].token,
                                 SliceTo(s, Len(options_iter[k].option))),
                         parent_frame_index |-> output_frame_index]))]

\* process_input_frame that pushes the Output frame after the child frames
process_input_frame_children_first(input_data, stk, all) ==
    LET initial == IF input_data.optional_data = None THEN <<>>
                   ELSE <<input_data.optional_data[1].chosen_option>>
        w == input_walk(all, input_data.tokens, 0, initial, input_data.string)
        matched_tokens_count == Len(w.matched_tokens)
        matched_tokens_list == IF w.matched_tokens # <<>> THEN <<w.matched_tokens>>
                               ELSE <<>>
        output_frame_index == Len(stk)
        output == OutputFrame(
            matched_tokens_list, matched_tokens_count, <<>>, 0,
            pushed_is_complete_match(Len(all) - input_data.tokens, matched_tokens_count),
            IF input_data.optional_data = None THEN None
            ELSE Some([parent_frame_index |->
                          input_data.optional_data[1].parent_frame_index]))
    IN  stk \o child_frames(input_data, w.string, w.options_iter, output_frame_index)
            \o <<output>>

\* Matcher::process_input_frame: the stack it leaves, given the popped
\* input_data, the rest of the stack and self.tokens
process_input_frame(input_data, stk, all) ==
    LET initial == IF input_data.optional_data = None THEN <<>>
                   ELSE <<input_data.optional_data[1].chosen_option>>
        w == input_walk(all, input_data.tokens, 0, initial, input_data.string)
        matched_tokens_count == Len(w.matched_tokens)
        matched_tokens_list == IF w.matched_tokens # <<>> THEN <<w.matched_tokens>>
                               ELSE <<>>
        output_frame_index == Len(stk)
        output == OutputFrame(
            matched_tokens_list, matched_tokens_count, <<>>, 0,
            pushed_is_complete_match(Len(all) - input_data.tokens, matched_tokens_count),
            IF input_data.optional_data = None THEN None
            ELSE Some([parent_frame_index |->
                          input_data.optional_data[1].parent_frame_index]))
    IN  Append(stk, output)
        \o child_frames(input_data, w.string, w.options_iter, output_frame_index)

\* fold that puts the child's best result in front of the frame's own steps
fold_prepends(output_data) ==
    [output_data EXCEPT
        !.matched_tokens_count = @ + output_data.best_current_matched_tokens_count,
        !.matched_tokens = output_data.best_current_matched_tokens \o @,
        !.best_current_matched_tokens = <<>>]

\* the first lines of process_output_frame: the child's best result is
\* appended to the frame's own steps
fold(output_data) ==
    [output_data EXCEPT
        !.matched_tokens_count = @ + output_data.best_current_matched_tokens_count,
        !.matched_tokens = @ \o output_data.best_current_matched_tokens,
        !.best_current_matched_tokens = <<>>]

\* replaces with >= in place of >
replaces_on_ties(child, parent) ==
    IF child.is_complete_match
    THEN \/ ~parent.is_complete_match
         \/ child.matched_tokens_count >= parent.best_current_matched_tokens_count
    ELSE /\ ~parent.is_complete_match
         /\ child.matched_tokens_count >= parent.best_current_matched_tokens_count

\* whether process_output_frame stores the folded child in the parent
replaces(child, parent) ==
    IF child.is_complete_match
    THEN \/ ~parent.is_complete_match
         \/ child.matched_tokens_count > parent.best_current_matched_tokens_count
    ELSE /\ ~parent.is_complete_match
         /\ child.matched_tokens_count > parent.best_current_matched_tokens_count

\* the parent frame as process_output_frame leaves it
merge(child, parent) ==
    IF replaces(child, parent)
    THEN [parent EXCEPT
             !.best_current_matched_tokens_count = child.matched_tokens_count,
             !.best_current_matched_tokens = child.matched_tokens,
             !.is_complete_match = IF child.is_complete_match THEN TRUE ELSE @]
    ELSE parent

\* Matcher::process_output_frame: what it returns (ret), the stack it leaves,
\* and whether it ran into unreachable!() or an index out of bounds (panic)
process_output_frame(output_data, stk) ==
    LET folded == fold(output_data)
    IN  IF folded.optional_data = None
        THEN [ret |-> Some(flatten(folded.matched_tokens)), stack |-> stk,
              panic |-> FALSE]
        ELSE LET p == folded.optional_data[1].parent_frame_index + 1
             IN  IF p > Len(stk) \/ stk[p].type # "Output"
                 THEN [ret |-> None, stack |-> stk, panic |-> TRUE]
                 ELSE [ret |-> None,
                       stack |-> [stk EXCEPT ![p] = merge(folded, stk[p])],
                       panic |-> FALSE]

----------------------------------------------------------------------------
(* Inputs *)

\* the strs made of at most n of the given characters
RECURSIVE Strs(_, _)
Strs(chars, n) ==
    IF n = 0 THEN {<<>>}
    ELSE LET shorter == Strs(chars, n - 1)
         IN  shorter \cup {s \o c : s \in shorter, c \in chars}

\* the pieces the pattern texts of the matching specification are made of
Segments ==
    { <<"a">>, <<"b">>, <<".">>,
      <<"(", "a", "|", "a", "b", ")">>,
      <<"(", "a", "b", "|", "a", ")">>,
      <<"(", "a", "|", "b", ")">> }

\* malformed alternations
BrokenSegments ==
    { <<"(", "a", ")">>, <<"(", "a", "|", "b">>, <<"(", "|", "a", ")">>,
      <<"(", "a", "|", "|", "b", ")">> }

\* the pattern texts of the compiler specification: every short text, and
\* the texts made of well-formed and malformed pieces
CompilerTexts ==
    Strs({<<"a">>, <<".">>, <<"(">>, <<"|">>, <<")">>}, MaxTextLen)
        \cup Strs(Segments \cup BrokenSegments, MaxSegs)

PatternTexts == Strs(Segments, MaxSegs)

Candidates == Strs({<<"a">>, <<"b">>}, MaxStrLen)

----------------------------------------------------------------------------
(* The state machine.  pc is "start" before Matcher::new, "failed" after   *)
(* it returned None, "ready" while no call is running, "exhaustive" inside *)
(* the loop of match_string_exhaustive and "panic" after an unreachable!() *)
(* or an index out of bounds.  mode, string and result are the kind, the   *)
(* argument and the returned list of the last call (result is empty while  *)
(* the call is running).  max_len_seen, probe and memo are history: the    *)
(* longest list returned so far, and the list returned by the first call   *)
(* of kind and argument `probe`.                                           *)

self == matcher[1]

Max(a, b) == IF a >= b THEN a ELSE b

InitWith(texts, probes) ==
    /\ pc = "start"
    /\ text \in texts
    /\ matcher = None
    /\ mode = "none"
    /\ string = <<>>
    /\ stack = <<>>
    /\ result = <<>>
    /\ max_len_seen = 0
    /\ probe \in probes
    /\ memo = None
    /\ ledger = <<>>

\* ledger holds, for every frame of the stack, how many child Input frames
\* were pushed for it and how many child Output frames process_output_frame
\* has handed to it since
NoChildren == [spawned |-> 0, merged |-> 0]

\* the ledger once the Output frame child has been handed to its parent
Merged(led, child) ==
    [led EXCEPT ![child.optional_data[1].parent_frame_index + 1].merged = @ + 1]

\* the bookkeeping of a call of kind m with argument s that returns res
Returns(m, s, res) ==
    /\ result' = res
    /\ max_len_seen' = Max(max_len_seen, Len(res))
    /\ memo' = IF probe = Some([mode |-> m, string |-> s]) /\ memo = None
               THEN Some(res) ELSE memo

\* let matcher = Matcher::new(&text)
New ==
    /\ pc = "start"
    /\ matcher' = new(text)
    /\ pc' = IF matcher' = None THEN "failed" ELSE "ready"
    /\ UNCHANGED <<text, mode, string, stack, result, max_len_seen, probe, memo, ledger>>

\* matcher.match_string(s)
MatchString(candidates) ==
    /\ pc = "ready"
    /\ \E s \in candidates :
          LET matched_tokens == match_string(self.tokens, s)
          IN  /\ mode' = "greedy"
              /\ string' = s
              /\ matcher' = Some(update_most_tokens_matched(self, matched_tokens))
              /\ Returns("greedy", s, matched_tokens)
    /\ UNCHANGED <<pc, text, stack, probe, ledger>>

\* matcher.match_string_exhaustive(s), up to the first test of the loop
MatchStringExhaustive(candidates) ==
    /\ pc = "ready"
    /\ \E s \in candidates :
          /\ mode' = "exhaustive"
          /\ string' = s
          /\ stack' = <<InputFrame(0, s, None)>>
    /\ pc' = "exhaustive"
    /\ result' = <<>>
    /\ ledger' = <<NoChildren>>
    /\ UNCHANGED <<text, matcher, max_len_seen, probe, memo>>

\* one iteration of the loop of match_string_exhaustive that pops an Input frame
PopInput ==
    /\ pc = "exhaustive"
    /\ stack # <<>>
    /\ stack[Len(stack)].type = "Input"
    /\ stack' = process_input_frame(stack[Len(stack)], SubSeq(stack, 1, Len(stack) - 1),
                                    self.tokens)
    /\ ledger' = SubSeq(ledger, 1, Len(stack) - 1)
                    \o <<[spawned |-> Len(stack') - Len(stack), merged |-> 0]>>
                    \o [k \in 1..(Len(stack') - Len(stack)) |-> NoChildren]
    /\ UNCHANGED <<pc, text, matcher, mode, string, result, max_len_seen, probe, memo>>

\* one iteration of the loop of match_string_exhaustive that pops an Output
\* frame (with the return it may lead to), or that finds the stack empty
PopOutput ==
    /\ pc = "exhaustive"
    /\ IF stack = <<>>
       THEN /\ pc' = "panic"
            /\ UNCHANGED <<matcher, stack, result, max_len_seen, memo, ledger>>
       ELSE /\ stack[Len(stack)].type = "Output"
            /\ LET r == process_output_frame(stack[Len(stack)],
                                             SubSeq(stack, 1, Len(stack) - 1))
               IN  /\ stack' = r.stack
                   /\ IF r.panic
                      THEN /\ pc' = "panic"
                           /\ UNCHANGED <<matcher, result, max_len_seen, memo, ledger>>
                      ELSE IF r.ret = None
                      THEN /\ ledger' = Merged(SubSeq(ledger, 1, Len(stack) - 1),
                                                 stack[Len(stack)])
                           /\ UNCHANGED <<pc, matcher, result, max_len_seen, memo>>
                      ELSE /\ pc' = "ready"
                           /\ ledger' = <<>>
                           /\ matcher' = Some(update_most_tokens_matched(self, r.ret[1]))
                           /\ Returns("exhaustive", string, r.ret[1])
    /\ UNCHANGED <<text, mode, string, probe>>

Init == InitWith(PatternTexts, {None})

Next ==
    \/ New
    \/ MatchString(Candidates)
    \/ MatchStringExhaustive(Candidates)
    \/ PopInput
    \/ PopOutput

Spec == Init /\ [][Next]_vars

\* the compiler alone, on every short text
InitCompiler == InitWith(CompilerTexts, {None})

NextCompiler == New

SpecCompiler == InitCompiler /\ [][NextCompiler]_vars

----------------------------------------------------------------------------
(* Reference definitions the claims are stated with *)

\* a call of kind m has returned and nothing has happened since
Returned(m) == pc = "ready" /\ mode = m

\* whether token tok can match at the front of rest
CanMatch(tok, rest) ==
    CASE tok.kind = "RawText" -> starts_with(rest, tok.text)
      [] tok.kind = "OneOfText" ->
            \E j \in 1..Len(tok.options) : starts_with(rest, tok.options[j])
      [] tok.kind = "WildCard" -> rest # <<>>

\* whether sub is a match of token tok
Satisfies(tok, sub) ==
    CASE tok.kind = "RawText" -> sub = tok.text
      [] tok.kind = "OneOfText" -> \E j \in 1..Len(tok.options) : sub = tok.options[j]
      [] tok.kind = "WildCard" -> sub # <<>> /\ Len(sub) = len_utf8(sub[1])

\* the concatenation of the substrings of the steps
RECURSIVE Concat(_)
Concat(steps) == IF steps = <<>> THEN <<>> ELSE Head(steps).str \o Concat(Tail(steps))

\* what is left of s after the first i steps
Rest(s, steps, i) == SliceFrom(s, Len(Concat(SubSeq(steps, 1, i))))

\* the recursive depth-first search: the most tokens, from the token at
\* position i on, that match s one after the other, over every choice of a
\* matching option at every alternation
RECURSIVE BestLen(_, _, _)
BestLen(tokens, i, s) ==
    IF i > Len(tokens) THEN 0
    ELSE CASE tokens[i].kind = "RawText" ->
                 IF starts_with(s, tokens[i].text)
                 THEN 1 + BestLen(tokens, i + 1, SliceFrom(s, Len(tokens[i].text)))
                 ELSE 0
           [] tokens[i].kind = "WildCard" ->
                 IF s # <<>>
                 THEN 1 + BestLen(tokens, i + 1, SliceFrom(s, len_utf8(s[1])))
                 ELSE 0
           [] tokens[i].kind = "OneOfText" ->
                 LET lens == {1 + BestLen(tokens, i + 1, SliceFrom(s, Len(tokens[i].options[j]))) :
                                 j \in {k \in 1..Len(tokens[i].options) :
                                           starts_with(s, tokens[i].options[k])}}
                 IN  IF lens = {} THEN 0
                     ELSE CHOOSE n \in lens : \A m \in lens : n >= m

\* a list of steps that reaches the last token of the pattern
CoversAll(steps) == steps # <<>> /\ steps[Len(steps)].token = Len(self.tokens)

----------------------------------------------------------------------------
(* Claims *)

\* C1: the list match_string_exhaustive returns is as long as the longest
\* sequential match the recursive depth-first search over every choice of
\* every alternation finds.
C1_ExhaustiveIsLongest ==
    Returned("exhaustive") => Len(result) = BestLen(self.tokens, 1, string)

\* C2: the list match_string_exhaustive returns is at least as long as the one
\* match_string returns for the same pattern and candidate.
C2_ExhaustiveDominatesGreedy ==
    Returned("exhaustive") => Len(result) >= Len(match_string(self.tokens, string))

\* C3, first half: when the parent Output frame holds as its best a child
\* result that reaches the last token, popping a child whose folded result
\* leaves a token unmatched does not replace it.
C3_CompleteBestIsKept ==
    (pc = "exhaustive" /\ stack # <<>> /\ stack[Len(stack)].type = "Output"
        /\ stack[Len(stack)].optional_data # None) =>
        LET child == fold(stack[Len(stack)])
            p == child.optional_data[1].parent_frame_index + 1
            after == process_output_frame(stack[Len(stack)],
                                          SubSeq(stack, 1, Len(stack) - 1)).stack
        IN  (CoversAll(flatten(stack[p].best_current_matched_tokens))
                /\ ~CoversAll(flatten(child.matched_tokens))) =>
                after[p].best_current_matched_tokens = stack[p].best_current_matched_tokens

\* C3, second half: when some choice of options matches every token, the
\* returned list has one step per token.
C3_CompleteIsFound ==
    (Returned("exhaustive") /\ BestLen(self.tokens, 1, string) = Len(self.tokens)) =>
        Len(result) = Len(self.tokens)

\* C3: a complete result is never displaced by an incomplete one, and a
\* complete result is returned whenever one exists.
C3_CompleteNeverDisplaced == C3_CompleteBestIsKept /\ C3_CompleteIsFound

\* C5: match_string returns steps for the tokens 1..L in order, each a match
\* of its token at the front of what the steps before it left, and either L
\* is the number of tokens or token L+1 does not match what is left.
C5_GreedyIsSequentialPrefix ==
    Returned("greedy") =>
        LET L == Len(result)
        IN  /\ L <= Len(self.tokens)
            /\ \A i \in 1..L :
                  /\ result[i].token = i
                  /\ Satisfies(self.tokens[i], result[i].str)
                  /\ starts_with(Rest(string, result, i - 1), result[i].str)
            /\ starts_with(string, Concat(result))
            /\ \/ L = Len(self.tokens)
               \/ ~CanMatch(self.tokens[L + 1], Rest(string, result, L))

\* C5 witness: a greedy call stopped at a token that failed, after matching
\* an alternation.
C5_Witness ==
    /\ Returned("greedy")
    /\ Len(result) >= 1
    /\ Len(result) < Len(self.tokens)
    /\ \E i \in 1..Len(result) : self.tokens[i].kind = "OneOfText"

\* C6: match_string resolves an alternation to the first option, in
\* declaration order, that what is left starts with, and consumes exactly
\* that option, whether or not a later option would let more tokens match;
\* it stops at an alternation none of whose options what is left starts with.
C6_GreedyTakesFirstOption ==
    Returned("greedy") =>
        LET L == Len(result)
        IN  /\ \A i \in 1..L :
                  self.tokens[result[i].token].kind = "OneOfText" =>
                      LET options == self.tokens[result[i].token].options
                          rest == Rest(string, result, i - 1)
                      IN  \E j \in 1..Len(options) :
                             /\ starts_with(rest, options[j])
                             /\ \A k \in 1..(j - 1) : ~starts_with(rest, options[k])
                             /\ result[i].str = options[j]
                             /\ Rest(string, result, i) = SliceFrom(rest, Len(options[j]))
            /\ (L < Len(self.tokens) /\ self.tokens[L + 1].kind = "OneOfText") =>
                   \A j \in 1..Len(self.tokens[L + 1].options) :
                       ~starts_with(Rest(string, result, L), self.tokens[L + 1].options[j])

\* C6 witness: a greedy call took the first option of an alternation although
\* another choice lets more tokens match.
C6_Witness ==
    /\ Returned("greedy")
    /\ \E i \in 1..Len(result) : self.tokens[i].kind = "OneOfText"
    /\ Len(result) < BestLen(self.tokens, 1, string)

\* C7: most_tokens_matched is 0 right after compile, never decreases, and is
\* the length of the longest list any call has returned so far.
C7_MostTokensMatched ==
    /\ [](matcher # None =>
            /\ self.most_tokens_matched = max_len_seen
            /\ (mode = "none" => self.most_tokens_matched = 0))
    /\ [][(matcher # None /\ matcher' # None) =>
            matcher'[1].most_tokens_matched >= self.most_tokens_matched]_vars

\* C7 witness: calls of both kinds have returned, and the last, exhaustive
\* one returned a list shorter than an earlier one.
C7_Witness ==
    /\ Returned("exhaustive")
    /\ Len(result) < self.most_tokens_matched
    /\ Len(result) > 0

----------------------------------------------------------------------------
(* Claims about Matcher::new *)

\* the position of the first c in t at or after position i, or 0
FirstAt(t, c, i) ==
    LET hits == {p \in i..Len(t) : t[p] = c}
    IN  IF hits = {} THEN 0 ELSE CHOOSE p \in hits : \A q \in hits : p <= q

\* the text between "(" and ")" lists at least two options, none empty
BodyOk(body) ==
    /\ \E k \in 1..Len(body) : body[k] = "|"
    /\ body[1] # "|"
    /\ body[Len(body)] # "|"
    /\ \A k \in 1..(Len(body) - 1) : ~(body[k] = "|" /\ body[k + 1] = "|")

\* scanning t from position i on, every alternation opened by "(" is closed
\* by a ")" and lists at least two options, none empty
RECURSIVE WellFormedFrom(_, _)
WellFormedFrom(t, i) ==
    LET p == FirstAt(t, "(", i)
        q == FirstAt(t, ")", p + 1)
    IN  IF p = 0 THEN TRUE
        ELSE IF q = 0 THEN FALSE
        ELSE BodyOk(SubSeq(t, p + 1, q - 1)) /\ WellFormedFrom(t, q + 1)

\* the pattern text the tokens were compiled from
RECURSIVE JoinOptions(_)
JoinOptions(options) ==
    IF Len(options) = 1 THEN options[1]
    ELSE options[1] \o <<"|">> \o JoinOptions(Tail(options))

RECURSIVE Unparse(_)
Unparse(tokens) ==
    IF tokens = <<>> THEN <<>>
    ELSE (CASE Head(tokens).kind = "RawText" -> Head(tokens).text
            [] Head(tokens).kind = "WildCard" -> <<".">>
            [] Head(tokens).kind = "OneOfText" ->
                  <<"(">> \o JoinOptions(Head(tokens).options) \o <<")">>)
         \o Unparse(Tail(tokens))

\* C8: Matcher::new returns None exactly when, scanning left to right, some
\* alternation is unterminated, has an empty option or has a single option;
\* for every other text it returns a Matcher.
C8_NewFailsIffMalformed ==
    pc # "start" =>
        /\ (matcher = None) <=> ~WellFormedFrom(text, 1)
        /\ (pc = "failed") <=> (matcher = None)

\* C8 witness: Matcher::new returned None for a text whose first alternation
\* is closed and has a single option.
C8_Witness ==
    /\ pc = "failed"
    /\ LET p == FirstAt(text, "(", 1)
           q == FirstAt(text, ")", p + 1)
       IN  /\ p > 0
           /\ q > p + 1
           /\ \A k \in (p + 1)..(q - 1) : text[k] # "|"

\* C9: a compiled Matcher has at least one token; every alternation has at
\* least two options, all non-empty and in the order of the text; every
\* literal is non-empty, except the only token of the empty pattern.
C9_CompiledTokens ==
    matcher # None =>
        /\ Len(self.tokens) >= 1
        /\ self.text = text
        /\ Unparse(self.tokens) = text
        /\ \A i \in 1..Len(self.tokens) :
              /\ self.tokens[i].kind = "OneOfText" =>
                    /\ Len(self.tokens[i].options) >= 2
                    /\ \A j \in 1..Len(self.tokens[i].options) :
                          self.tokens[i].options[j] # <<>>
              /\ (self.tokens[i] = RawText(<<>>)) =>
                    (text = <<>> /\ Len(self.tokens) = 1)

\* C9 witness: a compiled pattern with an alternation of two different options.
C9_Witness ==
    /\ pc = "ready"
    /\ \E i \in 1..Len(self.tokens) :
          /\ self.tokens[i].kind = "OneOfText"
          /\ self.tokens[i].options[1] # self.tokens[i].options[2]

----------------------------------------------------------------------------
(* The patterns and candidates of the tests *)

\* "abc(d|e|f)."
SimplePattern == <<"a", "b", "c", "(", "d", "|", "e", "|", "f", ")", ".">>

\* "abc(d|e|f."
BrokenPattern == <<"a", "b", "c", "(", "d", "|", "e", "|", "f", ".">>

\* "(aba|abac).(aba|abac)."
ScenarioPattern ==
    <<"(", "a", "b", "a", "|", "a", "b", "a", "c", ")", ".",
      "(", "a", "b", "a", "|", "a", "b", "a", "c", ")", ".">>

\* "abacabacd"
ScenarioCandidate == <<"a", "b", "a", "c", "a", "b", "a", "c", "d">>

TestTexts == {SimplePattern, BrokenPattern, ScenarioPattern}

Prefixes(s) == {SliceTo(s, n) : n \in 0..Len(s)}

\* "abcge", "abcde", "abcd" followed by the four bytes of U+1F4AA, "abacabacd",
\* and the prefixes of those that are ASCII
TestCandidates ==
    Prefixes(<<"a", "b", "c", "g", "e">>) \cup Prefixes(<<"a", "b", "c", "d", "e">>)
        \cup {<<"a", "b", "c", "d", "F0", "9F", "92", "AA">>}
        \cup Prefixes(ScenarioCandidate)

InitTests == InitWith(TestTexts, {None})

NextTests ==
    \/ New
    \/ MatchString(TestCandidates)
    \/ MatchStringExhaustive(TestCandidates)
    \/ PopInput
    \/ PopOutput

SpecTests == InitTests /\ [][NextTests]_vars

\* the list the test exhaustive_match_with_exhaustive_matcher expects
ScenarioExhaustive ==
    << Step(1, <<"a", "b", "a">>), Step(2, <<"c">>),
       Step(3, <<"a", "b", "a", "c">>), Step(4, <<"d">>) >>

\* the list the test exhaustive_match expects
ScenarioGreedy ==
    << Step(1, <<"a", "b", "a">>), Step(2, <<"c">>),
       Step(3, <<"a", "b", "a">>), Step(4, <<"c">>) >>

\* the scenario's call of kind m has returned
ScenarioReturned(m) ==
    Returned(m) /\ text = ScenarioPattern /\ string = ScenarioCandidate

\* list r1 is strictly better than list r2: complete where r2 is not, or
\* equally complete and longer
StrictlyBetter(r1, r2) ==
    LET n == Len(self.tokens)
    IN  \/ Len(r1) = n /\ Len(r2) # n
        \/ (Len(r1) = n) = (Len(r2) = n) /\ Len(r1) > Len(r2)

\* C4 as stated: the exhaustive call returns the length-4 complete list
\* (Alt "aba", Wild "c", Alt "abac", Wild "d"), which is strictly better than
\* the list match_string returns.
C4_ScenarioStrictlyBetter ==
    ScenarioReturned("exhaustive") =>
        /\ result = ScenarioExhaustive
        /\ StrictlyBetter(result, match_string(self.tokens, string))

\* C4 as amended: the exhaustive call returns the length-4 complete list
\* (Alt "aba", Wild "c", Alt "abac", Wild "d"); match_string returns the
\* length-4 complete list (Alt "aba", Wild "c", Alt "aba", Wild "c"), so the
\* two lists differ in their last two steps and neither is strictly better.
C4_ScenarioEquallyLong ==
    /\ (matcher # None /\ text = ScenarioPattern) =>
          self.tokens = << OneOfText(<< <<"a", "b", "a">>, <<"a", "b", "a", "c">> >>), WildCard,
                           OneOfText(<< <<"a", "b", "a">>, <<"a", "b", "a", "c">> >>), WildCard >>
    /\ ScenarioReturned("exhaustive") =>
          /\ result = ScenarioExhaustive
          /\ Len(result) = Len(self.tokens)
          /\ match_string(self.tokens, string) = ScenarioGreedy
          /\ ~StrictlyBetter(result, ScenarioGreedy)
    /\ ScenarioReturned("greedy") =>
          /\ result = ScenarioGreedy
          /\ Len(result) = Len(self.tokens)

\* C4 witness: the exhaustive call of the scenario has returned the expected
\* list and recorded its length.
C4_Witness ==
    /\ ScenarioReturned("exhaustive")
    /\ result = ScenarioExhaustive
    /\ self.most_tokens_matched = 4

----------------------------------------------------------------------------
(* Repeated calls: the list returned by the first call of one kind with one *)
(* candidate (the probe) is kept in memo and compared with the list every   *)
(* later call of that kind with that candidate returns.                     *)

RepeatSegments == { <<".">>, <<"a", "(", "a", "|", "a", "b", ")">> }

RepeatTexts == Strs(RepeatSegments, MaxSegs)

RepeatCandidates == Strs({<<"a">>, <<"b">>}, MaxRepeatStrLen)

Probes ==
    {Some([mode |-> m, string |-> s]) : m \in {"greedy", "exhaustive"}, s \in RepeatCandidates}

InitRepeat == InitWith(RepeatTexts, Probes)

NextRepeat ==
    \/ New
    \/ MatchString(RepeatCandidates)
    \/ MatchStringExhaustive(RepeatCandidates)
    \/ PopInput
    \/ PopOutput

SpecRepeat == InitRepeat /\ [][NextRepeat]_vars

\* C10: a call of one kind with one candidate returns the same list as the
\* first call of that kind with that candidate did, whatever calls happened
\* before or in between and whatever most_tokens_matched has become.
C10_SameCallSameResult ==
    (pc = "ready" /\ memo # None /\ probe = Some([mode |-> mode, string |-> string])) =>
        result = memo[1]

\* C10 witness: the probe call has returned again after a call that returned
\* more steps, so most_tokens_matched differs from the length the probe
\* returns.
C10_Witness ==
    /\ pc = "ready"
    /\ memo # None
    /\ probe = Some([mode |-> mode, string |-> string])
    /\ result = memo[1]
    /\ self.most_tokens_matched > Len(memo[1])

----------------------------------------------------------------------------
(* Candidates with multi-byte characters *)

\* the UTF-8 encodings of "a", U+00E9, U+20AC and U+1F4AA
Utf8Chars ==
    { <<"a">>, <<"C3", "A9">>, <<"E2", "82", "AC">>, <<"F0", "9F", "92", "AA">> }

\* ".", "a" and "(a|a" U+00E9 ")"
Utf8Segments == { <<".">>, <<"a">>, <<"(", "a", "|", "a", "C3", "A9", ")">> }

Utf8Texts == Strs(Utf8Segments, MaxSegs)

Utf8Candidates == Strs(Utf8Chars, MaxUtf8Len)

InitUtf8 == InitWith(Utf8Texts, {None})

NextUtf8 ==
    \/ New
    \/ MatchString(Utf8Candidates)
    \/ MatchStringExhaustive(Utf8Candidates)
    \/ PopInput
    \/ PopOutput

SpecUtf8 == InitUtf8 /\ [][NextUtf8]_vars

\* the suffixes of s that start at a character boundary
RECURSIVE CharSuffixes(_)
CharSuffixes(s) ==
    IF s = <<>> THEN {<<>>}
    ELSE {s} \cup UNION {CharSuffixes(SliceFrom(s, Len(c))) :
                            c \in {d \in Utf8Chars : starts_with(s, d)}}

\* C11: a wildcard matches iff a character is left, and then its substring is
\* exactly the k bytes (1 <= k <= 4) of the next character and the cursor
\* moves by k, in the lists both matchers return.
C11_WildCardTakesOneCharacter ==
    /\ matcher # None =>
          \A s \in CharSuffixes(string) :
              LET r == match_wild_card(1, <<>>, s)
              IN  /\ r.ok <=> s # <<>>
                  /\ r.ok => \E c \in Utf8Chars :
                                /\ starts_with(s, c)
                                /\ Len(c) \in 1..4
                                /\ r.matched_tokens = <<Step(1, c)>>
                                /\ r.string = SliceFrom(s, Len(c))
    /\ (Returned("greedy") \/ Returned("exhaustive")) =>
          /\ \A i \in 1..Len(result) :
                self.tokens[result[i].token].kind = "WildCard" =>
                    /\ result[i].str \in Utf8Chars
                    /\ starts_with(Rest(string, result, i - 1), result[i].str)
                    /\ Rest(string, result, i) \in CharSuffixes(string)
          /\ (Len(result) < Len(self.tokens)
                /\ self.tokens[Len(result) + 1].kind = "WildCard") =>
                Rest(string, result, Len(result)) = <<>>

\* C11 witness: the exhaustive matcher returned a wildcard step of four bytes
\* after an alternation step.
C11_Witness ==
    /\ Returned("exhaustive")
    /\ \E i \in 2..Len(result) :
          /\ self.tokens[result[i].token].kind = "WildCard"
          /\ self.tokens[result[i - 1].token].kind = "OneOfText"
          /\ Len(result[i].str) = 4

----------------------------------------------------------------------------
(* The loop of match_string_exhaustive *)

\* ".", "(a|ab)" and "(a|b)"
LoopSegments ==
    { <<".">>, <<"(", "a", "|", "a", "b", ")">>, <<"(", "a", "|", "b", ")">> }

InitLoop == InitWith(Strs(LoopSegments, MaxSegs), {None})

NextLoop ==
    \/ New
    \/ MatchString(RepeatCandidates)
    \/ MatchStringExhaustive(RepeatCandidates)
    \/ PopInput
    \/ PopOutput

\* the loop runs to completion: an iteration that can be taken is taken
SpecFair == InitLoop /\ [][NextLoop]_vars /\ WF_vars(PopInput) /\ WF_vars(PopOutput)

Top == stack[Len(stack)]

\* C12: the loop of match_string_exhaustive terminates, and only by popping
\* the root Output frame and returning its folded list; every child Input
\* frame has a strictly shorter token slice than the frame that spawned it;
\* the stack never runs empty inside the loop and no unreachable!() is met.
C12_ExhaustiveTerminates ==
    /\ [](pc # "panic" /\ (pc = "exhaustive" => stack # <<>>))
    /\ [][(pc = "exhaustive" /\ Top.type = "Input") =>
             \A k \in (Len(stack) + 1)..Len(stack') :
                 /\ stack'[k].type = "Input"
                 /\ stack'[k].tokens > Top.tokens
                 /\ stack'[k].tokens <= Len(self.tokens)]_vars
    /\ [][(pc = "exhaustive" /\ pc' = "ready") =>
             /\ Top.type = "Output"
             /\ Top.optional_data = None
             /\ result' = flatten(fold(Top).matched_tokens)]_vars
    /\ (pc = "exhaustive" ~> pc = "ready")

\* C12 witness: an exhaustive call has returned a list that starts with the
\* step of a child frame and goes on with what the child matched.
C12_Witness ==
    /\ Returned("exhaustive")
    /\ stack = <<>>
    /\ Len(result) >= 2
    /\ self.tokens[result[1].token].kind = "OneOfText"

\* C13: the parent_frame_index of every frame on the stack is smaller than
\* the frame's own position and designates an Output frame on the stack; when
\* a non-root Output frame is popped its parent exists and is an Output
\* frame, so neither unreachable!() nor an index out of bounds happens.
C13_ParentIndexValid ==
    /\ pc # "panic"
    /\ pc = "exhaustive" =>
          /\ \A k \in 1..Len(stack) :
                stack[k].optional_data # None =>
                    LET p == stack[k].optional_data[1].parent_frame_index
                    IN  /\ p < k - 1
                        /\ stack[p + 1].type = "Output"
          /\ (stack # <<>> /\ Top.type = "Output") =>
                ~process_output_frame(Top, SubSeq(stack, 1, Len(stack) - 1)).panic

\* C13 witness: an Output frame whose parent is not the root frame is about
\* to be popped.
C13_Witness ==
    /\ pc = "exhaustive"
    /\ stack # <<>>
    /\ Top.type = "Output"
    /\ Top.optional_data # None
    /\ Top.optional_data[1].parent_frame_index > 0

\* an Output frame into which no child result has been merged yet: its
\* fields are those process_input_frame pushed
AsPushed(frame) ==
    frame.type = "Output" /\ frame.best_current_matched_tokens_count = 0

\* C14: the is_complete_match flag of an Output frame as pushed is true only
\* if the steps of its path reach the last token of the pattern, so that no
\* token is left unmatched and no alternation is pending.
C14_PushedFlagMeansComplete ==
    pc = "exhaustive" =>
        \A k \in 1..Len(stack) :
            (AsPushed(stack[k]) /\ stack[k].is_complete_match) =>
                CoversAll(flatten(stack[k].matched_tokens))

\* whether the best child an Output frame holds is complete: a frame that
\* has merged no child holds an empty, incomplete best child
BestChildComplete(parent) == ~AsPushed(parent) /\ parent.is_complete_match

\* the replacement rule: complete beats incomplete, and with the same
\* completeness the strictly longer one wins
ShouldReplace(child, parent) ==
    \/ child.is_complete_match /\ ~BestChildComplete(parent)
    \/ /\ child.is_complete_match = BestChildComplete(parent)
       /\ child.matched_tokens_count > parent.best_current_matched_tokens_count

\* C15: when a non-root Output frame is popped, its folded result becomes
\* the parent's best child exactly when the replacement rule says so, and
\* otherwise the parent's best-child fields stay as they were; the first
\* child result of positive length is therefore always accepted.
C15_ReplacementRule ==
    (pc = "exhaustive" /\ stack # <<>> /\ Top.type = "Output"
        /\ Top.optional_data # None) =>
        LET child  == fold(Top)
            p      == Top.optional_data[1].parent_frame_index + 1
            parent == stack[p]
            after  == process_output_frame(Top, SubSeq(stack, 1, Len(stack) - 1)).stack[p]
        IN  IF ShouldReplace(child, parent)
            THEN /\ after.best_current_matched_tokens = child.matched_tokens
                 /\ after.best_current_matched_tokens_count = child.matched_tokens_count
            ELSE /\ after.best_current_matched_tokens = parent.best_current_matched_tokens
                 /\ after.best_current_matched_tokens_count =
                        parent.best_current_matched_tokens_count

\* the child Input frames a step of the loop has pushed
Pushed == SubSeq(stack', Len(stack) + 1, Len(stack'))

\* whether a non-root Output frame about to be popped ties, in length and
\* completeness, with the best child its parent has merged so far
TieAtPop ==
    /\ pc = "exhaustive" /\ stack # <<>>
    /\ Top.type = "Output" /\ Top.optional_data # None
    /\ LET child  == fold(Top)
           parent == stack[Top.optional_data[1].parent_frame_index + 1]
       IN  /\ ~AsPushed(parent)
           /\ child.matched_tokens_count = parent.best_current_matched_tokens_count
           /\ child.is_complete_match = parent.is_complete_match

\* whether option o1 is declared before option o2 in the alternation tok
DeclaredBefore(tok, o1, o2) ==
    \E i, j \in 1..Len(tok.options) :
        i < j /\ tok.options[i] = o1 /\ tok.options[j] = o2

NoRealChoice ==
    LET greedy == match_string(self.tokens, string)
    IN  \A i \in 1..Len(self.tokens) :
            (i <= Len(greedy) + 1 /\ self.tokens[i].kind = "OneOfText") =>
                \A j, k \in 1..Len(self.tokens[i].options) :
                    (/\ starts_with(Rest(string, greedy, i - 1), self.tokens[i].options[j])
                     /\ starts_with(Rest(string, greedy, i - 1), self.tokens[i].options[k]))
                        => j = k

\* C17: where no alternation along the greedy walk offers a real choice,
\* match_string_exhaustive returns the steps match_string returns, and
\* most_tokens_matched is at least their number.
C17_ExhaustiveEqualsGreedy ==
    (Returned("exhaustive") /\ NoRealChoice) =>
        /\ result = match_string(self.tokens, string)
        /\ self.most_tokens_matched >= Len(match_string(self.tokens, string))

\* the frames of the stack spawned from the frame at position k
Alive(k) ==
    {j \in 1..Len(stack) :
        /\ stack[j].optional_data # None
        /\ stack[j].optional_data[1].parent_frame_index = k - 1}

\* C18: of the child Input frames pushed for an Output frame, those not yet
\* handed back as a popped Output frame are still on the stack above it; an
\* Output frame at the top of the stack, the next to be popped, has been
\* handed the Output frame of every child pushed for it and has no
\* descendant left; once the result is returned the stack is empty.
C18_OutputPoppedAfterChildren ==
    /\ pc = "exhaustive" =>
          /\ Len(ledger) = Len(stack)
          /\ \A k \in 1..Len(stack) :
                /\ ledger[k].spawned = ledger[k].merged + Cardinality(Alive(k))
                /\ \A j \in Alive(k) : j > k /\ stack[k].type = "Output"
          /\ Top.type = "Output" =>
                /\ ledger[Len(stack)].merged = ledger[Len(stack)].spawned
                /\ Alive(Len(stack)) = {}
    /\ pc = "ready" => stack = <<>>

\* C18 witness: an Output frame spawned from an alternation choice is about
\* to be popped after two children of its own were pushed and handed back.
C18_Witness ==
    /\ pc = "exhaustive"
    /\ Top.type = "Output"
    /\ Top.optional_data # None
    /\ ledger[Len(stack)].spawned >= 2
    /\ ledger[Len(stack)].merged = ledger[Len(stack)].spawned

\* what a single-step matcher leaves, given the steps and the cursor it was
\* called with: nothing changed on failure; on success one more step, for
\* the token it was given, whose substring followed by the new cursor is
\* the old cursor
OneStepOrNothing(r, token, matched_tokens, s) ==
    IF ~r.ok
    THEN r.matched_tokens = matched_tokens /\ r.string = s
    ELSE /\ Len(r.matched_tokens) = Len(matched_tokens) + 1
         /\ SubSeq(r.matched_tokens, 1, Len(matched_tokens)) = matched_tokens
         /\ r.matched_tokens[Len(r.matched_tokens)].token = token
         /\ r.matched_tokens[Len(r.matched_tokens)].str \o r.string = s
         /\ Len(r.string) = Len(s) - Len(r.matched_tokens[Len(r.matched_tokens)].str)

\* C19: match_raw_text, match_one_of_text and match_wild_card, called for
\* any token of the pattern with the steps of the last result and any
\* cursor into the candidate, either fail and change nothing, or append one
\* step holding the consumed prefix and move the cursor past it.
C19_SingleStepMatchers ==
    (Returned("greedy") \/ Returned("exhaustive")) =>
        \A s \in CharSuffixes(string) : \A i \in 1..Len(self.tokens) :
            LET tok == self.tokens[i]
            IN  CASE tok.kind = "RawText" ->
                        OneStepOrNothing(match_raw_text(tok.text, i, result, s),
                                         i, result, s)
                  [] tok.kind = "OneOfText" ->
                        OneStepOrNothing(match_one_of_text(tok.options, i, result, s),
                                         i, result, s)
                  [] tok.kind = "WildCard" ->
                        OneStepOrNothing(match_wild_card(i, result, s), i, result, s)

\* C19 witness: on the cursor the greedy walk stopped at, in front of a
\* character of two bytes, the literal of the pattern fails, and on the whole
\* candidate the alternation succeeds.
C19_Witness ==
    /\ Returned("greedy")
    /\ Len(self.tokens) = 2
    /\ self.tokens[1].kind = "OneOfText"
    /\ self.tokens[2].kind = "RawText"
    /\ Len(result) = 1
    /\ ~match_raw_text(self.tokens[2].text, 2, result, Rest(string, result, 1)).ok
    /\ match_one_of_text(self.tokens[1].options, 1, <<>>, string).ok
    /\ Rest(string, result, 1) = <<"C3", "A9">>

\* C20: the list match_string_exhaustive returns, whatever its length, has
\* the i-th token of the pattern in its i-th step, every substring satisfies
\* its token and sits in the candidate right after the substrings before
\* it, so that the substrings in order make up a prefix of the candidate.
C20_ExhaustiveIsSequentialPrefix ==
    Returned("exhaustive") =>
        /\ Len(result) <= Len(self.tokens)
        /\ \A i \in 1..Len(result) :
              /\ result[i].token = i
              /\ Satisfies(self.tokens[i], result[i].str)
              /\ starts_with(Rest(string, result, i - 1), result[i].str)
        /\ starts_with(string, Concat(result))

\* C20 witness: the returned list has a literal step, then the step of an
\* alternation taken from the result of a child frame.
C20_Witness ==
    /\ Returned("exhaustive")
    /\ Len(result) = 2
    /\ self.tokens[1].kind = "RawText"
    /\ self.tokens[2].kind = "OneOfText"
    /\ Len(result[2].str) = 2

====
